---- MODULE Spec2Model ----
(***************************************************************************)
(* A model of src/ios-device.cpp: the registry of attached iOS devices     *)
(* (connectedDevices), the notification callback, the getDeviceInfo        *)
(* threads, the pending counter that devices() waits on, pumpRunLoop(),    *)
(* log() and the line splitting of LogSocketCallback.                      *)
(*                                                                         *)
(* Threads: one main thread (the JavaScript thread; it runs pumpRunLoop,   *)
(* devices, log and, inside CFRunLoopRunInMode, on_device_notification and *)
(* LogSocketCallback) and one detached thread per getDeviceInfo call.      *)
(***************************************************************************)
EXTENDS Integers, Sequences, FiniteSets, TLC

\* ----------------------------------------------------------------- bounds
\* Notifications the MobileDevice framework delivers in one behaviour.
MaxNotifications == 2
\* Calls of log() and installApp() the host makes.
MaxLogCalls == 2
\* How many of the ten device->set(...) calls of getDeviceInfo are modelled.
NumProps == 1
\* Length of the byte stream fed to LogSocketCallback.
MaxStream == 4

\* ------------------------------------------------------------- constants
\* The bytes LogSocketCallback tests for.
NL == 10
NUL == 0

UdidOrder == <<"u1", "u2">>
Udids == {UdidOrder[i] : i \in 1..Len(UdidOrder)}
Messages == {"ADNCI_MSG_CONNECTED", "ADNCI_MSG_DISCONNECTED"}

AllPropKeys ==
    <<"name", "buildVersion", "cpuArchitecture", "deviceClass", "deviceColor",
      "hardwareModel", "modelNumber", "productType", "productVersion",
      "serialNumber">>
PropKeys == SubSeq(AllPropKeys, 1, NumProps)

\* Ordinary bytes of the log alphabet ('a', 'b') and the two terminators.
Alphabet == {97, 98, NL, NUL}

VARIABLES
    connectedDevices,   \* udid -> Device* (index into devs), 0 when absent
    devs,               \* every Device ever constructed, by address
    workers,            \* the getDeviceInfo thread of devs[i]: its position
    deviceMutex,        \* boost::shared_mutex state
    pendingMutex,       \* TRUE while the main thread holds it across steps
    pendingCond,        \* TRUE when a notify_one reached the waiter
    pendingEvents,
    devicesChanged,
    listeners,          \* every Listener allocated: how often it was deleted
    sockets,            \* every CFSocket/CFRunLoopSource pair created by log()
    runLoopSources,     \* sources added to the main run loop
    mpc,                \* position of the main thread
    frame,              \* locals of the call the main thread is in
    ret,                \* what the last host call returned or threw
    hist,               \* history: counts and what the claims speak about
    logio               \* LogSocketCallback's input stream and output lines

vars ==
    <<connectedDevices, devs, workers, deviceMutex, pendingMutex, pendingCond,
      pendingEvents, devicesChanged, listeners, sockets, runLoopSources, mpc,
      frame, ret, hist, logio>>

registryVars ==
    <<connectedDevices, devs, workers, deviceMutex, pendingMutex, pendingCond,
      pendingEvents, devicesChanged, listeners, sockets, runLoopSources, mpc,
      frame, ret, hist>>

\* ------------------------------------------------------------ the Device
\* Device::Device(am_device&)
NewDevice(udid) ==
    [udid |-> udid, props |-> {"udid"}, connected |-> 0, session |-> FALSE,
     hostConnected |-> FALSE, logSocket |-> 0, logSource |-> 0,
     logCallback |-> 0, deleted |-> FALSE]

\* Device::connect(): ok says whether AMDeviceConnect, the pairing and
\* AMDeviceStartSession all succeed. The counter is incremented before any
\* of them is tried.
ConnectThrows(dev, ok) == dev.connected = 0 /\ ~ok

Connect(dev, ok) ==
    IF dev.connected > 0
    THEN [dev EXCEPT !.connected = @ + 1]
    ELSE [dev EXCEPT !.connected = 1, !.session = ok]

\* A disconnect that does nothing.
Disconnect_Skipped(dev, force) == dev

\* Device::disconnect(force)
Disconnect(dev, force) ==
    IF force \/ dev.connected - 1 <= 0
    THEN [dev EXCEPT !.connected = 0, !.session = FALSE]
    ELSE [dev EXCEPT !.connected = @ - 1]

\* CFDictionaryContainsKey(connectedDevices, udid)
ContainsKey(udid) == connectedDevices[udid] # 0

\* ---------------------------------------------------- boost::shared_mutex
\* A reader that does not wait for the writer: devices() without its
\* shared_lock.
CanLockShared_NoWait == TRUE

\* shared_lock: blocks while a writer holds the mutex.
CanLockShared == ~deviceMutex.exclusive

LockShared == [deviceMutex EXCEPT !.shared_count = @ + 1]

UnlockShared == [deviceMutex EXCEPT !.shared_count = @ - 1]

\* upgrade_lock: one upgrader at a time, shared with readers.
CanLockUpgrade == ~deviceMutex.exclusive /\ ~deviceMutex.upgrade

LockUpgrade == [deviceMutex EXCEPT !.shared_count = @ + 1, !.upgrade = TRUE]

\* upgrade_to_unique_lock: waits until the upgrader is the only holder.
CanLockUnique == deviceMutex.upgrade /\ deviceMutex.shared_count = 1

LockUnique ==
    [deviceMutex EXCEPT !.shared_count = 0, !.upgrade = FALSE, !.exclusive = TRUE]

\* both locks leave scope
UnlockUnique ==
    [deviceMutex EXCEPT !.shared_count = 0, !.upgrade = FALSE, !.exclusive = FALSE]

\* ------------------------------------------------------------- histories
NoFrame ==
    [udid |-> "", msg |-> "", exists |-> FALSE, deviceObj |-> 0,
     logCallback |-> 0, values |-> <<>>, result |-> <<>>, inFlight |-> {},
     emitted |-> FALSE, muts |-> 0]

\* One more mutation of the Registry since the last pump read the flag (capped at
\* "more than one"). The histories of the registry are kept only where the
\* registry's claims are checked.
Mutated(h) ==
    IF h.scope = "registry"
    THEN [h EXCEPT !.muts = IF @ < 2 THEN @ + 1 ELSE @]
    ELSE h

\* Udids are named in the order in which notifications first mention them:
\* the next udid to appear is UdidOrder[hist.seen + 1].
UdidIndex(udid) == CHOOSE i \in 1..Len(UdidOrder) : UdidOrder[i] = udid

Nameable(udid) == UdidIndex(udid) <= hist.seen + 1

InFlight == {w \in 1..Len(workers) : workers[w].pc # "done"}

InitScope(scope) ==
    /\ connectedDevices = [u \in Udids |-> 0]
    /\ devs = <<>>
    /\ workers = <<>>
    /\ deviceMutex = [shared_count |-> 0, exclusive |-> FALSE, upgrade |-> FALSE]
    /\ pendingMutex = FALSE
    /\ pendingCond = FALSE
    /\ pendingEvents = 0
    /\ devicesChanged = FALSE
    /\ listeners = <<>>
    /\ sockets = <<>>
    /\ runLoopSources = {}
    /\ mpc = "idle"
    /\ frame = NoFrame
    /\ ret = "none"
    /\ hist = [scope |-> scope, notifs |-> 0, logs |-> 0,
               attached |-> [u \in Udids |-> FALSE], wellFormed |-> TRUE,
               muts |-> 0, seen |-> 0]

\* the state of a syslog stream none of which has arrived
LogOf(stream) ==
    [stream |-> stream, rest |-> stream, lines |-> <<>>, chunk |-> <<>>,
     chunkLines |-> <<>>, chunks |-> 0]

Init == InitScope("registry") /\ logio = LogOf(<<>>)

InitStream == InitScope("stream") /\ logio = LogOf(<<>>)

\* ------------------------------------------------------- getDeviceInfo
\* boost::upgrade_lock<boost::shared_mutex> lock(deviceMutex);
getDeviceInfo_lock(w) ==
    /\ workers[w].pc = "start"
    /\ CanLockUpgrade
    /\ deviceMutex' = LockUpgrade
    /\ workers' = [workers EXCEPT ![w].pc = "upgraded"]
    /\ UNCHANGED <<connectedDevices, devs, pendingMutex, pendingCond,
                   pendingEvents, devicesChanged, listeners, sockets,
                   runLoopSources, mpc, frame, ret, hist, logio>>

\* boost::upgrade_to_unique_lock<boost::shared_mutex> unique_lock(lock);
getDeviceInfo_unique(w) ==
    /\ workers[w].pc = "upgraded"
    /\ CanLockUnique
    /\ deviceMutex' = LockUnique
    /\ workers' = [workers EXCEPT ![w].pc = "flag"]
    /\ UNCHANGED <<connectedDevices, devs, pendingMutex, pendingCond,
                   pendingEvents, devicesChanged, listeners, sockets,
                   runLoopSources, mpc, frame, ret, hist, logio>>

\* devicesChanged = true;
getDeviceInfo_flag(w) ==
    /\ workers[w].pc = "flag"
    /\ devicesChanged' = TRUE
    /\ workers' = [workers EXCEPT ![w].pc = "insert"]
    /\ UNCHANGED <<connectedDevices, devs, deviceMutex, pendingMutex,
                   pendingCond, pendingEvents, listeners, sockets,
                   runLoopSources, mpc, frame, ret, hist, logio>>

\* if (!CFDictionaryContainsKey(...)) CFDictionarySetValue(...);
getDeviceInfo_insert(w) ==
    /\ workers[w].pc = "insert"
    /\ IF ContainsKey(devs[w].udid)
       THEN UNCHANGED <<connectedDevices, hist>>
       ELSE /\ connectedDevices' = [connectedDevices EXCEPT ![devs[w].udid] = w]
            /\ hist' = Mutated(hist)
    /\ workers' = [workers EXCEPT ![w].pc = "connect"]
    /\ UNCHANGED <<devs, deviceMutex, pendingMutex, pendingCond, pendingEvents,
                   devicesChanged, listeners, sockets, runLoopSources, mpc,
                   frame, ret, logio>>

\* The Device as thread w sees it at its write: the connected counter is
\* the value the thread read before. connected is a plain int that the main
\* thread reads and writes in log() and installApp() under no lock, so the
\* thread's connected++ and --connected are a read and a later write.
Seen(w) == [devs[w] EXCEPT !.connected = workers[w].c]

\* device->connect(): this->connected is read
getDeviceInfo_connect(w) ==
    /\ workers[w].pc = "connect"
    /\ workers' = [workers EXCEPT ![w].pc = "connect_store",
                                  ![w].c = devs[w].connected]
    /\ UNCHANGED <<connectedDevices, devs, deviceMutex, pendingMutex,
                   pendingCond, pendingEvents, devicesChanged, listeners,
                   sockets, runLoopSources, mpc, frame, ret, hist, logio>>

\* device->connect(): the incremented counter is written and, if the value
\* read was 0, the device is connected; an exception leaves the try block
getDeviceInfo_connect_store(w) ==
    /\ workers[w].pc = "connect_store"
    /\ \E ok \in BOOLEAN :
         /\ devs' = [devs EXCEPT ![w] = Connect(Seen(w), ok)]
         /\ workers' = [workers EXCEPT ![w].pc =
                IF ConnectThrows(Seen(w), ok) THEN "disconnect" ELSE "set",
                                       ![w].k = 0, ![w].c = 0]
    /\ UNCHANGED <<connectedDevices, deviceMutex, pendingMutex, pendingCond,
                   pendingEvents, devicesChanged, listeners, sockets,
                   runLoopSources, mpc, frame, ret, hist, logio>>

\* device->set(key, ...): the value is stored unless AMDeviceCopyValue or the
\* string conversion yields NULL
getDeviceInfo_set(w) ==
    /\ workers[w].pc = "set"
    /\ workers[w].k < Len(PropKeys)
    /\ \E stored \in BOOLEAN :
         IF stored
         THEN /\ devs' = [devs EXCEPT ![w].props = @ \cup {PropKeys[workers[w].k + 1]}]
              /\ hist' = IF connectedDevices[devs[w].udid] = w
                         THEN Mutated(hist) ELSE hist
         ELSE UNCHANGED <<devs, hist>>
    /\ workers' = [workers EXCEPT ![w].k = @ + 1]
    /\ UNCHANGED <<connectedDevices, deviceMutex, pendingMutex, pendingCond,
                   pendingEvents, devicesChanged, listeners, sockets,
                   runLoopSources, mpc, frame, ret, logio>>

\* device->hostConnected = value == 1;
getDeviceInfo_host(w) ==
    /\ workers[w].pc = "set"
    /\ workers[w].k = Len(PropKeys)
    /\ \E value \in {0, 1} :
         devs' = [devs EXCEPT ![w].hostConnected = (value = 1)]
    /\ hist' = IF connectedDevices[devs[w].udid] = w THEN Mutated(hist) ELSE hist
    /\ workers' = [workers EXCEPT ![w].pc = "disconnect"]
    /\ UNCHANGED <<connectedDevices, deviceMutex, pendingMutex, pendingCond,
                   pendingEvents, devicesChanged, listeners, sockets,
                   runLoopSources, mpc, frame, ret, logio>>

\* device->disconnect(): this->connected is read
getDeviceInfo_disconnect(w) ==
    /\ workers[w].pc = "disconnect"
    /\ workers' = [workers EXCEPT ![w].pc = "disconnect_store",
                                  ![w].c = devs[w].connected]
    /\ UNCHANGED <<connectedDevices, devs, deviceMutex, pendingMutex,
                   pendingCond, pendingEvents, devicesChanged, listeners,
                   sockets, runLoopSources, mpc, frame, ret, hist, logio>>

\* device->disconnect(): the decremented counter is written and, at 0 or
\* below, reset to 0 and the session stopped
getDeviceInfo_disconnect_store(w) ==
    /\ workers[w].pc = "disconnect_store"
    /\ devs' = [devs EXCEPT ![w] = Disconnect(Seen(w), FALSE)]
    /\ workers' = [workers EXCEPT ![w].pc = "end", ![w].c = 0]
    /\ UNCHANGED <<connectedDevices, deviceMutex, pendingMutex, pendingCond,
                   pendingEvents, devicesChanged, listeners, sockets,
                   runLoopSources, mpc, frame, ret, hist, logio>>

\* if (pendingEvents > 0) pendingEvents--;
Decremented(n) == IF n > 0 THEN n - 1 ELSE n

\* std::unique_lock<std::mutex> mlock(pendingMutex); the decrement; the
\* notify_one, which is lost unless devices() is waiting; then every lock of
\* the function leaves scope.
getDeviceInfo_end(w) ==
    /\ workers[w].pc = "end"
    /\ ~pendingMutex
    /\ pendingEvents' = Decremented(pendingEvents)
    /\ pendingCond' = IF pendingEvents' = 0 /\ mpc = "devices_wait"
                      THEN TRUE ELSE pendingCond
    /\ deviceMutex' = UnlockUnique
    /\ workers' = [workers EXCEPT ![w].pc = "done"]
    /\ UNCHANGED <<connectedDevices, devs, pendingMutex, devicesChanged,
                   listeners, sockets, runLoopSources, mpc, frame, ret, hist,
                   logio>>

getDeviceInfo(w) ==
    \/ getDeviceInfo_lock(w)
    \/ getDeviceInfo_unique(w)
    \/ getDeviceInfo_flag(w)
    \/ getDeviceInfo_insert(w)
    \/ getDeviceInfo_connect(w)
    \/ getDeviceInfo_connect_store(w)
    \/ getDeviceInfo_set(w)
    \/ getDeviceInfo_host(w)
    \/ getDeviceInfo_disconnect(w)
    \/ getDeviceInfo_disconnect_store(w)
    \/ getDeviceInfo_end(w)

\* ------------------------------------------------ on_device_notification
\* hist after one more notification
Notified(h, msg, udid) ==
    LET n == [h EXCEPT !.notifs = @ + 1,
                       !.seen = IF UdidIndex(udid) > @ THEN UdidIndex(udid) ELSE @]
    IN  IF h.scope = "registry"
        THEN [n EXCEPT !.attached[udid] = (msg = "ADNCI_MSG_CONNECTED"),
                       !.wellFormed = @ /\ ~(msg = "ADNCI_MSG_CONNECTED"
                                             /\ h.attached[udid])]
        ELSE n

\* CFRunLoopRunInMode hands the next notification of the MobileDevice
\* framework to the callback. hist records which udids are attached and
\* whether some udid was attached twice with no detach in between.
on_device_notification_enter(msg, udid) ==
    /\ mpc = "runloop"
    /\ hist.notifs < MaxNotifications
    /\ Nameable(udid)
    /\ mpc' = "odn_check"
    /\ frame' = [NoFrame EXCEPT !.msg = msg, !.udid = udid]
    /\ hist' = Notified(hist, msg, udid)
    /\ UNCHANGED <<connectedDevices, devs, workers, deviceMutex, pendingMutex,
                   pendingCond, pendingEvents, devicesChanged, listeners,
                   sockets, runLoopSources, ret, logio>>

\* { shared_lock lock(deviceMutex); exists = CFDictionaryContainsKey(...); }
on_device_notification_check ==
    /\ mpc = "odn_check"
    /\ CanLockShared
    /\ frame' = [frame EXCEPT !.exists = ContainsKey(frame.udid)]
    /\ mpc' = "odn_branch"
    /\ UNCHANGED <<connectedDevices, devs, workers, deviceMutex, pendingMutex,
                   pendingCond, pendingEvents, devicesChanged, listeners,
                   sockets, runLoopSources, ret, hist, logio>>

\* The attach branch without its test of exists.
TakesAttachBranch_NoExists(exists, msg) == msg = "ADNCI_MSG_CONNECTED"

\* if (!exists && info->msg == ADNCI_MSG_CONNECTED)
TakesAttachBranch(exists, msg) == ~exists /\ msg = "ADNCI_MSG_CONNECTED"

\* else if (exists && info->msg == ADNCI_MSG_DISCONNECTED)
TakesDetachBranch(exists, msg) ==
    /\ ~TakesAttachBranch(exists, msg)
    /\ exists
    /\ msg = "ADNCI_MSG_DISCONNECTED"

\* The counter set to one, not incremented, on a spawn.
Incremented_Reset(n) == 1

\* if (pendingEvents < 0) pendingEvents = 0; pendingEvents++;
Incremented(n) == (IF n < 0 THEN 0 ELSE n) + 1

\* new Device(info->dev); the counter under pendingMutex; std::thread(...)
on_device_notification_attach ==
    /\ mpc = "odn_branch"
    /\ TakesAttachBranch(frame.exists, frame.msg)
    /\ ~pendingMutex
    /\ devs' = Append(devs, NewDevice(frame.udid))
    /\ workers' = Append(workers, [pc |-> "start", k |-> 0, c |-> 0])
    /\ pendingEvents' = Incremented(pendingEvents)
    /\ mpc' = "runloop"
    /\ frame' = NoFrame
    /\ UNCHANGED <<connectedDevices, deviceMutex, pendingMutex, pendingCond,
                   devicesChanged, listeners, sockets, runLoopSources, ret,
                   hist, logio>>

\* delete of a Listener (0 is the null pointer)
DeleteListener(ls, cb) == IF cb = 0 THEN ls ELSE [ls EXCEPT ![cb] = @ + 1]

\* CFRelease of a run loop source: the caller's reference goes, the run loop
\* keeps its own
ReleaseSource(ss, s) == IF s = 0 THEN ss ELSE [ss EXCEPT ![s].srcRel = @ + 1]

\* CFRelease of a socket
ReleaseSocket(ss, s) == IF s = 0 THEN ss ELSE [ss EXCEPT ![s].sockRel = @ + 1]

\* the three releases written out in on_device_notification and in log()
ReleaseLog(ss, dev) ==
    ReleaseSocket(ReleaseSource(ss, dev.logSource), dev.logSocket)

\* Device::~Device(): disconnect(true), then the same three releases (the
\* pointers were not reset by the caller). The memory is freed: what the
\* fields held is gone.
Destroyed(dev) ==
    [NewDevice(dev.udid) EXCEPT
       !.connected = Disconnect(dev, TRUE).connected,
       !.props = {},
       !.deleted = TRUE]

\* the detach branch, all of it under the unique lock
on_device_notification_detach ==
    /\ mpc = "odn_branch"
    /\ TakesDetachBranch(frame.exists, frame.msg)
    /\ CanLockUpgrade
    /\ deviceMutex.shared_count = 0
    /\ LET d == connectedDevices[frame.udid] IN
         /\ connectedDevices' = [connectedDevices EXCEPT ![frame.udid] = 0]
         /\ listeners' = DeleteListener(DeleteListener(listeners,
                              devs[d].logCallback), devs[d].logCallback)
         /\ sockets' = ReleaseLog(ReleaseLog(sockets, devs[d]), devs[d])
         /\ devs' = [devs EXCEPT ![d] = Destroyed(@)]
    /\ devicesChanged' = TRUE
    /\ hist' = Mutated(hist)
    /\ mpc' = "runloop"
    /\ frame' = NoFrame
    /\ UNCHANGED <<workers, deviceMutex, pendingMutex, pendingCond,
                   pendingEvents, runLoopSources, ret, logio>>

\* neither branch is taken
on_device_notification_ignore ==
    /\ mpc = "odn_branch"
    /\ ~TakesAttachBranch(frame.exists, frame.msg)
    /\ ~TakesDetachBranch(frame.exists, frame.msg)
    /\ mpc' = "runloop"
    /\ frame' = NoFrame
    /\ UNCHANGED <<connectedDevices, devs, workers, deviceMutex, pendingMutex,
                   pendingCond, pendingEvents, devicesChanged, listeners,
                   sockets, runLoopSources, ret, hist, logio>>

on_device_notification ==
    \/ \E msg \in Messages, udid \in Udids :
         on_device_notification_enter(msg, udid)
    \/ on_device_notification_check
    \/ on_device_notification_attach
    \/ on_device_notification_detach
    \/ on_device_notification_ignore

\* ------------------------------------------------------- pump_run_loop
\* the host calls pumpRunLoop(): CFRunLoopRunInMode starts
pump_run_loop_call ==
    /\ mpc = "idle"
    /\ mpc' = "runloop"
    /\ UNCHANGED <<connectedDevices, devs, workers, deviceMutex, pendingMutex,
                   pendingCond, pendingEvents, devicesChanged, listeners,
                   sockets, runLoopSources, frame, ret, hist, logio>>

\* CFRunLoopRunInMode returns; if (devicesChanged)
pump_run_loop_test ==
    /\ mpc = "runloop"
    /\ IF devicesChanged
       THEN mpc' = "pump_reset"
       ELSE mpc' = "pump_return"
    /\ frame' = [frame EXCEPT !.muts = hist.muts]
    /\ hist' = [hist EXCEPT !.muts = 0]
    /\ UNCHANGED <<connectedDevices, devs, workers, deviceMutex, pendingMutex,
                   pendingCond, pendingEvents, devicesChanged, listeners,
                   sockets, runLoopSources, ret, logio>>

\* what the pump writes to the flag before it emits
ResetValue == FALSE

\* devicesChanged = false;
pump_run_loop_reset ==
    /\ mpc = "pump_reset"
    /\ devicesChanged' = ResetValue
    /\ mpc' = "pump_emit"
    /\ UNCHANGED <<connectedDevices, devs, workers, deviceMutex, pendingMutex,
                   pendingCond, pendingEvents, listeners, sockets,
                   runLoopSources, frame, ret, hist, logio>>

\* emit->Call(ee, 1, args) with "devicesChanged"; the host has called
\* setEmitter, so ee is not empty
pump_run_loop_emit ==
    /\ mpc = "pump_emit"
    /\ mpc' = "pump_return"
    /\ frame' = [frame EXCEPT !.emitted = TRUE]
    /\ UNCHANGED <<connectedDevices, devs, workers, deviceMutex, pendingMutex,
                   pendingCond, pendingEvents, devicesChanged, listeners,
                   sockets, runLoopSources, ret, hist, logio>>

\* A pump that clears the flag once more when it returns.
pump_run_loop_return_Clears ==
    /\ mpc = "pump_return"
    /\ mpc' = "idle"
    /\ frame' = NoFrame
    /\ devicesChanged' = FALSE
    /\ UNCHANGED <<connectedDevices, devs, workers, deviceMutex, pendingMutex,
                   pendingCond, pendingEvents, listeners, sockets,
                   runLoopSources, ret, hist, logio>>

\* info.GetReturnValue().SetUndefined();
pump_run_loop_return ==
    /\ mpc = "pump_return"
    /\ mpc' = "idle"
    /\ frame' = NoFrame
    /\ UNCHANGED <<connectedDevices, devs, workers, deviceMutex, pendingMutex,
                   pendingCond, pendingEvents, devicesChanged, listeners,
                   sockets, runLoopSources, ret, hist, logio>>

pump_run_loop ==
    \/ pump_run_loop_call
    \/ pump_run_loop_test
    \/ pump_run_loop_reset
    \/ pump_run_loop_emit
    \/ pump_run_loop_return

\* ------------------------------------------------------------- devices
\* the host calls devices(): unique_lock mlock(pendingMutex);
\* if (pendingEvents > 0) pendingCond.wait(mlock);
devices_call ==
    /\ mpc = "idle"
    /\ ~pendingMutex
    /\ frame' = [NoFrame EXCEPT !.inFlight = InFlight]
    /\ pendingCond' = FALSE
    /\ IF pendingEvents > 0
       THEN /\ mpc' = "devices_wait"
            /\ pendingMutex' = FALSE
       ELSE /\ mpc' = "devices_lock"
            /\ pendingMutex' = TRUE
    /\ UNCHANGED <<connectedDevices, devs, workers, deviceMutex, pendingEvents,
                   devicesChanged, listeners, sockets, runLoopSources, ret,
                   hist, logio>>

\* wait() returns after a notify_one, the mutex held again
devices_notified ==
    /\ mpc = "devices_wait"
    /\ pendingCond
    /\ ~pendingMutex
    /\ pendingCond' = FALSE
    /\ pendingMutex' = TRUE
    /\ mpc' = "devices_lock"
    /\ UNCHANGED <<connectedDevices, devs, workers, deviceMutex, pendingEvents,
                   devicesChanged, listeners, sockets, runLoopSources, frame,
                   ret, hist, logio>>

\* wait() returns with no notify_one: std::condition_variable::wait may wake
\* spuriously, and the code does not test the counter again
devices_spurious ==
    /\ mpc = "devices_wait"
    /\ ~pendingCond
    /\ ~pendingMutex
    /\ pendingMutex' = TRUE
    /\ mpc' = "devices_lock"
    /\ UNCHANGED <<connectedDevices, devs, workers, deviceMutex, pendingCond,
                   pendingEvents, devicesChanged, listeners, sockets,
                   runLoopSources, frame, ret, hist, logio>>

\* CFDictionaryGetKeysAndValues: the Device pointers, in the order of the keys
RECURSIVE Values(_)
Values(i) ==
    IF i > Len(UdidOrder) THEN <<>>
    ELSE (IF connectedDevices[UdidOrder[i]] # 0
          THEN <<connectedDevices[UdidOrder[i]]>> ELSE <<>>) \o Values(i + 1)

\* shared_lock lock(deviceMutex); the count and the values are read
devices_lock ==
    /\ mpc = "devices_lock"
    /\ CanLockShared
    /\ deviceMutex' = LockShared
    /\ frame' = [frame EXCEPT !.values = Values(1)]
    /\ mpc' = "devices_iterate"
    /\ UNCHANGED <<connectedDevices, devs, workers, pendingMutex, pendingCond,
                   pendingEvents, devicesChanged, listeners, sockets,
                   runLoopSources, ret, hist, logio>>

\* one turn of the loop over values[i]: its props are copied to the result
devices_iterate ==
    /\ mpc = "devices_iterate"
    /\ Len(frame.result) < Len(frame.values)
    /\ frame' = [frame EXCEPT !.result =
                    Append(@, devs[frame.values[Len(frame.result) + 1]].props)]
    /\ UNCHANGED <<connectedDevices, devs, workers, deviceMutex, pendingMutex,
                   pendingCond, pendingEvents, devicesChanged, listeners,
                   sockets, runLoopSources, mpc, ret, hist, logio>>

\* the result is returned; both locks leave scope
devices_return ==
    /\ mpc = "devices_iterate"
    /\ Len(frame.result) = Len(frame.values)
    /\ deviceMutex' = UnlockShared
    /\ pendingMutex' = FALSE
    /\ frame' = NoFrame
    /\ mpc' = "idle"
    /\ UNCHANGED <<connectedDevices, devs, workers, pendingCond, pendingEvents,
                   devicesChanged, listeners, sockets, runLoopSources, ret,
                   hist, logio>>

devices ==
    \/ devices_call
    \/ devices_notified
    \/ devices_spurious
    \/ devices_lock
    \/ devices_iterate
    \/ devices_return

\* ----------------------------------------------------------------- log
\* the host calls log(udid, callback): the lookup, new Listener, and the
\* hostConnected test. No lock is taken.
log_call(udid) ==
    /\ mpc = "idle"
    /\ hist.logs < MaxLogCalls
    /\ Nameable(udid)
    /\ hist' = [hist EXCEPT !.logs = @ + 1]
    /\ mpc' = "log_lookup"
    /\ frame' = [NoFrame EXCEPT !.udid = udid]
    /\ UNCHANGED <<connectedDevices, devs, workers, deviceMutex, pendingMutex,
                   pendingCond, pendingEvents, devicesChanged, listeners,
                   sockets, runLoopSources, ret, logio>>

\* log() without its test of hostConnected.
NotHostConnected_Skipped(dev) == FALSE

\* if (!deviceObj->hostConnected)
NotHostConnected(dev) == ~dev.hostConnected

\* log() allocating its Listener before it looks the udid up.
log_lookup_ListenerFirst ==
    /\ mpc = "log_lookup"
    /\ listeners' = Append(listeners, 0)
    /\ IF ~ContainsKey(frame.udid)
       THEN /\ ret' = "Device '%s' not connected"
            /\ mpc' = "log_return"
            /\ UNCHANGED frame
       ELSE IF NotHostConnected(devs[connectedDevices[frame.udid]])
            THEN /\ ret' = "iOS device must be connected to host"
                 /\ mpc' = "log_return"
                 /\ frame' = [frame EXCEPT
                                !.deviceObj = connectedDevices[frame.udid]]
            ELSE /\ frame' = [frame EXCEPT
                                !.deviceObj = connectedDevices[frame.udid],
                                !.logCallback = Len(listeners) + 1]
                 /\ mpc' = "log_connect"
                 /\ UNCHANGED ret
    /\ UNCHANGED <<connectedDevices, devs, workers, deviceMutex, pendingMutex,
                   pendingCond, pendingEvents, devicesChanged, sockets,
                   runLoopSources, hist, logio>>

\* if (!CFDictionaryContainsKey(...)) throw; new Listener;
\* if (!deviceObj->hostConnected) throw
log_lookup ==
    /\ mpc = "log_lookup"
    /\ IF ~ContainsKey(frame.udid)
       THEN /\ ret' = "Device '%s' not connected"
            /\ mpc' = "log_return"
            /\ UNCHANGED <<listeners, frame>>
       ELSE /\ listeners' = Append(listeners, 0)
            /\ IF NotHostConnected(devs[connectedDevices[frame.udid]])
               THEN /\ ret' = "iOS device must be connected to host"
                    /\ mpc' = "log_return"
                    /\ frame' = [frame EXCEPT
                                   !.deviceObj = connectedDevices[frame.udid]]
               ELSE /\ frame' = [frame EXCEPT
                                   !.deviceObj = connectedDevices[frame.udid],
                                   !.logCallback = Len(listeners) + 1]
                    /\ mpc' = "log_connect"
                    /\ UNCHANGED ret
    /\ UNCHANGED <<connectedDevices, devs, workers, deviceMutex, pendingMutex,
                   pendingCond, pendingEvents, devicesChanged, sockets,
                   runLoopSources, hist, logio>>

\* deviceObj->connect(); a runtime_error is rethrown to the host
log_connect ==
    /\ mpc = "log_connect"
    /\ \E ok \in BOOLEAN :
         /\ devs' = [devs EXCEPT ![frame.deviceObj] = Connect(@, ok)]
         /\ IF ConnectThrows(devs[frame.deviceObj], ok)
            THEN /\ ret' = "Failed to connect to device"
                 /\ mpc' = "log_return"
            ELSE /\ mpc' = "log_startService"
                 /\ UNCHANGED ret
    /\ UNCHANGED <<connectedDevices, workers, deviceMutex, pendingMutex,
                   pendingCond, pendingEvents, devicesChanged, listeners,
                   sockets, runLoopSources, frame, hist, logio>>

\* deviceObj->startService(AMSVC_SYSLOG_RELAY, &connection);
log_startService ==
    /\ mpc = "log_startService"
    /\ \E ok \in BOOLEAN :
         IF ok
         THEN /\ mpc' = "log_disconnect"
              /\ UNCHANGED ret
         ELSE /\ ret' = "Failed to start service"
              /\ mpc' = "log_return"
    /\ UNCHANGED <<connectedDevices, devs, workers, deviceMutex, pendingMutex,
                   pendingCond, pendingEvents, devicesChanged, listeners,
                   sockets, runLoopSources, frame, hist, logio>>

\* deviceObj->disconnect();
log_disconnect ==
    /\ mpc = "log_disconnect"
    /\ devs' = [devs EXCEPT ![frame.deviceObj] = Disconnect(@, FALSE)]
    /\ mpc' = "log_install"
    /\ UNCHANGED <<connectedDevices, workers, deviceMutex, pendingMutex,
                   pendingCond, pendingEvents, devicesChanged, listeners,
                   sockets, runLoopSources, frame, ret, hist, logio>>

\* CFSocketCreateWithNative + CFSocketCreateRunLoopSource: a new pair, whose
\* info pointer is the Device and which was created in the call that
\* allocated Listener cb
NewSocket(d, cb) == [dev |-> d, listener |-> cb, srcRel |-> 0, sockRel |-> 0]

\* The end of log(): the socket and its source are created (which may fail),
\* the source is added to the main run loop, the device's previous Listener,
\* source and socket are released, and the new ones are stored.
log_install ==
    /\ mpc = "log_install"
    /\ LET d == frame.deviceObj
           s == Len(sockets) + 1 IN
       \E created \in BOOLEAN :
         IF ~created
         THEN /\ ret' = "Failed to create socket"
              /\ UNCHANGED <<devs, listeners, sockets, runLoopSources>>
         ELSE /\ runLoopSources' = runLoopSources \cup {s}
              /\ listeners' = DeleteListener(listeners, devs[d].logCallback)
              /\ sockets' = Append(ReleaseLog(sockets, devs[d]),
                                   NewSocket(d, frame.logCallback))
              /\ devs' = [devs EXCEPT ![d].logSocket = s, ![d].logSource = s,
                                      ![d].logCallback = frame.logCallback]
              /\ ret' = "undefined"
    /\ mpc' = "log_return"
    /\ UNCHANGED <<connectedDevices, workers, deviceMutex, pendingMutex,
                   pendingCond, pendingEvents, devicesChanged, frame, hist,
                   logio>>

\* back in the host
log_return ==
    /\ mpc = "log_return"
    /\ mpc' = "idle"
    /\ frame' = NoFrame
    /\ ret' = "none"
    /\ UNCHANGED <<connectedDevices, devs, workers, deviceMutex, pendingMutex,
                   pendingCond, pendingEvents, devicesChanged, listeners,
                   sockets, runLoopSources, hist, logio>>

log ==
    \/ \E udid \in Udids : log_call(udid)
    \/ log_lookup
    \/ log_connect
    \/ log_startService
    \/ log_disconnect
    \/ log_install
    \/ log_return

\* ----------------------------------------------------------- installApp
\* the host calls installApp(udid, appPath). No lock is taken.
installApp_call(udid) ==
    /\ mpc = "idle"
    /\ hist.logs < MaxLogCalls
    /\ Nameable(udid)
    /\ hist' = [hist EXCEPT !.logs = @ + 1]
    /\ mpc' = "installApp_lookup"
    /\ frame' = [NoFrame EXCEPT !.udid = udid]
    /\ UNCHANGED <<connectedDevices, devs, workers, deviceMutex, pendingMutex,
                   pendingCond, pendingEvents, devicesChanged, listeners,
                   sockets, runLoopSources, ret, logio>>

\* if (!CFDictionaryContainsKey(...)) throw; deviceObj = CFDictionaryGetValue;
\* then the tests of appPath (a string, not empty, an existing file)
installApp_lookup ==
    /\ mpc = "installApp_lookup"
    /\ IF ~ContainsKey(frame.udid)
       THEN /\ ret' = "Device '%s' not connected"
            /\ mpc' = "installApp_return"
            /\ UNCHANGED frame
       ELSE /\ frame' = [frame EXCEPT !.deviceObj = connectedDevices[frame.udid]]
            /\ \E appPathOk \in BOOLEAN :
                 IF appPathOk
                 THEN mpc' = "installApp_connect" /\ UNCHANGED ret
                 ELSE /\ ret' = "The app path '%s' does not exist"
                      /\ mpc' = "installApp_return"
    /\ UNCHANGED <<connectedDevices, devs, workers, deviceMutex, pendingMutex,
                   pendingCond, pendingEvents, devicesChanged, listeners,
                   sockets, runLoopSources, hist, logio>>

\* deviceObj->connect(); a runtime_error is rethrown to the host
installApp_connect ==
    /\ mpc = "installApp_connect"
    /\ \E ok \in BOOLEAN :
         /\ devs' = [devs EXCEPT ![frame.deviceObj] = Connect(@, ok)]
         /\ IF ConnectThrows(devs[frame.deviceObj], ok)
            THEN /\ ret' = "Failed to connect to device"
                 /\ mpc' = "installApp_return"
            ELSE /\ mpc' = "installApp_transfer"
                 /\ UNCHANGED ret
    /\ UNCHANGED <<connectedDevices, workers, deviceMutex, pendingMutex,
                   pendingCond, pendingEvents, devicesChanged, listeners,
                   sockets, runLoopSources, frame, hist, logio>>

\* AMDeviceStopSession(*device); AMDeviceDisconnect(*device);
\* deviceObj->connected--;
StopSession(dev) == [dev EXCEPT !.session = FALSE, !.connected = @ - 1]

\* AMDeviceSecureTransferPath(...): on failure the session is stopped
\* directly and the counter decremented
installApp_transfer ==
    /\ mpc = "installApp_transfer"
    /\ \E ok \in BOOLEAN :
         IF ok
         THEN /\ mpc' = "installApp_install"
              /\ UNCHANGED <<devs, ret>>
         ELSE /\ devs' = [devs EXCEPT ![frame.deviceObj] = StopSession(@)]
              /\ ret' = "Failed to copy app to device"
              /\ mpc' = "installApp_return"
    /\ UNCHANGED <<connectedDevices, workers, deviceMutex, pendingMutex,
                   pendingCond, pendingEvents, devicesChanged, listeners,
                   sockets, runLoopSources, frame, hist, logio>>

\* AMDeviceSecureInstallApplication(...): the same on failure; on success
\* deviceObj->disconnect() and undefined is returned
installApp_install ==
    /\ mpc = "installApp_install"
    /\ \E ok \in BOOLEAN :
         IF ok
         THEN /\ devs' = [devs EXCEPT ![frame.deviceObj] = Disconnect(@, FALSE)]
              /\ ret' = "undefined"
         ELSE /\ devs' = [devs EXCEPT ![frame.deviceObj] = StopSession(@)]
              /\ ret' = "Failed to install app on device"
    /\ mpc' = "installApp_return"
    /\ UNCHANGED <<connectedDevices, workers, deviceMutex, pendingMutex,
                   pendingCond, pendingEvents, devicesChanged, listeners,
                   sockets, runLoopSources, frame, hist, logio>>

\* back in the host
installApp_return ==
    /\ mpc = "installApp_return"
    /\ mpc' = "idle"
    /\ frame' = NoFrame
    /\ ret' = "none"
    /\ UNCHANGED <<connectedDevices, devs, workers, deviceMutex, pendingMutex,
                   pendingCond, pendingEvents, devicesChanged, listeners,
                   sockets, runLoopSources, hist, logio>>

installApp ==
    \/ \E udid \in Udids : installApp_call(udid)
    \/ installApp_lookup
    \/ installApp_connect
    \/ installApp_transfer
    \/ installApp_install
    \/ installApp_return

\* Bytes arrive on a socket whose source is in the run loop: the run loop
\* calls LogSocketCallback with the Device the socket was created for
\* (Device* device = (Device*)info), and the lines go to the Listener that
\* device->logCallback points to at that moment.
LogSocketCallback_call(s) ==
    /\ mpc = "runloop"
    /\ s \in runLoopSources
    /\ mpc' = "LogSocketCallback"
    /\ frame' = [NoFrame EXCEPT !.deviceObj = sockets[s].dev,
                               !.logCallback = devs[sockets[s].dev].logCallback,
                               !.values = <<s>>]
    /\ UNCHANGED <<connectedDevices, devs, workers, deviceMutex, pendingMutex,
                   pendingCond, pendingEvents, devicesChanged, listeners,
                   sockets, runLoopSources, ret, hist, logio>>

\* the callback returns to the run loop
LogSocketCallback_return ==
    /\ mpc = "LogSocketCallback"
    /\ mpc' = "runloop"
    /\ frame' = NoFrame
    /\ UNCHANGED <<connectedDevices, devs, workers, deviceMutex, pendingMutex,
                   pendingCond, pendingEvents, devicesChanged, listeners,
                   sockets, runLoopSources, ret, hist, logio>>

\* ---------------------------------------------------------------- Spec
Next ==
    \/ \E w \in 1..Len(workers) : getDeviceInfo(w)
    \/ on_device_notification
    \/ pump_run_loop
    \/ devices

Spec == Init /\ [][Next]_vars

NextStream ==
    \/ \E w \in 1..Len(workers) : getDeviceInfo(w)
    \/ on_device_notification
    \/ pump_run_loop
    \/ log
    \/ installApp
    \/ \E s \in 1..Len(sockets) : LogSocketCallback_call(s)
    \/ LogSocketCallback_return

SpecStream == InitStream /\ [][NextStream]_vars

\* A host that calls nothing but pumpRunLoop(), and keeps calling it: the main
\* thread goes on whenever it can (CFRunLoopRunInMode returns after its
\* interval), and every getDeviceInfo thread is scheduled and its device I/O
\* completes.
WorkerStep(w) == w \in 1..Len(workers) /\ getDeviceInfo(w)

MainThreadStep == on_device_notification \/ pump_run_loop

NextPump ==
    \/ \E w \in 1..Len(workers) : getDeviceInfo(w)
    \/ on_device_notification
    \/ pump_run_loop

SpecPump ==
    /\ Init
    /\ [][NextPump]_vars
    /\ WF_vars(MainThreadStep)
    /\ \A w \in 1..MaxNotifications : WF_vars(WorkerStep(w))

\* ---------------------------------------------------- LogSocketCallback
\* if (c == '\n' || c == '\0')
IsTerminator(c) == c = NL \/ c = NUL

\* The callback called without the test j > 0.
Called_Always(out, str) == Append(out, str)

\* str[j] = '\0'; if (j > 0) callback->Call(..., str)
Called(out, str) == IF Len(str) > 0 THEN Append(out, str) ELSE out

\* while (*buffer == '\0') { buffer++; length--; ... }
RECURSIVE SkipNul(_)
SkipNul(buffer) ==
    IF Len(buffer) > 0 /\ buffer[1] = NUL
    THEN SkipNul(Tail(buffer))
    ELSE buffer

\* The loops of LogSocketCallback over one CFData: buffer is what is left of
\* it, i the index of the inner loop, str the bytes copied since the last
\* terminator (str[0..j-1]), out the strings the callback was called with.
RECURSIVE LogSocketCallback_outer(_, _), LogSocketCallback_inner(_, _, _, _)
LogSocketCallback_outer(buffer, out) ==
    IF Len(buffer) = 0 THEN out
    ELSE IF Len(SkipNul(buffer)) = 0 THEN out
    ELSE LogSocketCallback_inner(SkipNul(buffer), 0, <<>>, out)

LogSocketCallback_inner(buffer, i, str, out) ==
    IF i >= Len(buffer) THEN out
    ELSE IF IsTerminator(buffer[i + 1])
         THEN IF buffer[i + 1] = NUL
              THEN LogSocketCallback_outer(
                       SubSeq(buffer, i + 2, Len(buffer)), Called(out, str))
              ELSE LogSocketCallback_inner(buffer, i + 1, <<>>, Called(out, str))
         ELSE LogSocketCallback_inner(buffer, i + 1,
                                      Append(str, buffer[i + 1]), out)

\* what the callback is called with, in order, for one CFData
LogSocketCallback(data) == LogSocketCallback_outer(data, <<>>)

\* The streams a syslog relay may send: every stream over the alphabet up to
\* MaxStream bytes, and the two of the specification's examples,
\* "abc\ndef\0" and "\0\0hello\0".
Example1 == <<97, 98, 99, NL, 100, 101, 102, NUL>>
Example2 == <<NUL, NUL, 104, 101, 108, 108, 111, NUL>>
Streams ==
    UNION {[1..n -> Alphabet] : n \in 0..MaxStream} \cup {Example1, Example2}

InitLines ==
    /\ InitScope("lines")
    /\ \E stream \in Streams : logio = LogOf(stream)

\* The next n bytes of the stream arrive as one CFData and the run loop
\* calls LogSocketCallback with them.
LogSocketCallback_data(n) ==
    /\ n \in 1..Len(logio.rest)
    /\ LET data == SubSeq(logio.rest, 1, n) IN
         logio' = [logio EXCEPT
                     !.rest = SubSeq(@, n + 1, Len(@)),
                     !.chunk = data,
                     !.chunkLines = LogSocketCallback(data),
                     !.lines = @ \o LogSocketCallback(data),
                     !.chunks = IF @ < 2 THEN @ + 1 ELSE @]
    /\ UNCHANGED registryVars

NextLines == \E n \in 1..Len(logio.rest) : LogSocketCallback_data(n)

SpecLines == InitLines /\ [][NextLines]_vars

\* ================================================================ claims
\* Every getDeviceInfo thread has returned and the main thread is in no
\* notification callback.
Quiescent ==
    /\ mpc \in {"idle", "runloop"}
    /\ \A w \in 1..Len(workers) : workers[w].pc = "done"

\* C1: if no udid was attached twice with no detach in between, then once
\* every notification is processed and every getDeviceInfo thread has
\* finished, connectedDevices holds exactly the udids whose last
\* notification was an attach.
C1_RegistryIsAttachedSet ==
    (hist.wellFormed /\ Quiescent)
        => \A u \in Udids : ContainsKey(u) <=> hist.attached[u]

\* C2: a devices() call made while getDeviceInfo threads are in flight reads
\* the registry only after all of them have decremented pendingEvents, and
\* what it returns holds, for each of them, the props that thread stored.
C2_SnapshotAfterWorkers ==
    (mpc = "devices_iterate" /\ frame.inFlight # {})
        => /\ pendingEvents = 0
           /\ \A w \in frame.inFlight : workers[w].pc = "done"
           /\ Len(frame.result) = Len(frame.values)
                => \A w \in frame.inFlight :
                     \E i \in 1..Len(frame.result) :
                        /\ devs[frame.values[i]].udid = devs[w].udid
                        /\ devs[w].props \subseteq frame.result[i]

\* The thread of Device d is inside its enrichment pass: past the insert,
\* before the end of the try block and the disconnect.
Enriching(d) ==
    workers[d].pc \in
        {"connect", "connect_store", "set", "disconnect", "disconnect_store"}

\* C3: while devices() iterates the props of the Devices it read from the
\* registry, no getDeviceInfo thread is between its first and last write to
\* one of them.
C3_SnapshotIsolation ==
    mpc = "devices_iterate"
        => \A i \in 1..Len(frame.values) : ~Enriching(frame.values[i])

\* devices() iterates an enriched Device while another getDeviceInfo thread
\* holds the upgrade lock and waits to become the writer.
C3_Witness ==
    /\ mpc = "devices_iterate"
    /\ \E i \in 1..Len(frame.values) :
         /\ workers[frame.values[i]].pc = "done"
         /\ Cardinality(devs[frame.values[i]].props) > 1
    /\ \E w \in 1..Len(workers) : workers[w].pc = "upgraded"

\* The notification being handled is a detach of a udid the registry did not
\* hold, or an attach of one it held, when on_device_notification looked.
NoOpNotification ==
    /\ mpc = "odn_branch"
    /\ \/ frame.msg = "ADNCI_MSG_DISCONNECTED" /\ ~frame.exists
       \/ frame.msg = "ADNCI_MSG_CONNECTED" /\ frame.exists

\* C4: on_device_notification reads exists from the registry, and for a
\* detach of an absent udid or an attach of a present one it changes
\* neither the registry, nor pendingEvents, nor devicesChanged, nor the
\* Devices, nor the set of getDeviceInfo threads.
C4_NoOpNotification ==
    [][/\ (mpc = "odn_check" /\ mpc' # mpc)
            => frame'.exists = ContainsKey(frame.udid)
       /\ (NoOpNotification /\ mpc' # mpc)
            => /\ mpc' = "runloop"
               /\ UNCHANGED <<connectedDevices, pendingEvents, devicesChanged,
                              devs, workers, deviceMutex, listeners, sockets>>
      ]_vars

\* A udid was attached twice in a row and only one Device was ever
\* constructed: the second attach found it registered and was ignored.
C4_Witness ==
    /\ mpc = "runloop"
    /\ hist.notifs = 2
    /\ ~hist.wellFormed
    /\ Len(devs) = 1
    /\ ContainsKey(devs[1].udid)

\* C5: a pump that emits "devicesChanged" read the flag after a mutation of
\* the registry that no earlier pump's read of the flag followed.
C5_EmitOnlyAfterMutation ==
    (mpc = "pump_return" /\ frame.emitted) => frame.muts > 0

\* C6: a pump that reads the flag after exactly one mutation of the registry
\* made since the previous pump's read emits "devicesChanged".
C6_OneMutationOneEmit ==
    (mpc = "pump_return" /\ frame.muts = 1) => frame.emitted

\* A byte that ends no line.
Ordinary(c) == c # NL /\ c # NUL

\* The last index of the run of ordinary bytes that starts at s.
RunEnd(b, s) ==
    CHOOSE e \in s..Len(b) :
        /\ \A i \in s..e : Ordinary(b[i])
        /\ e = Len(b) \/ ~Ordinary(b[e + 1])

\* Where the maximal runs of ordinary bytes that a terminator follows start.
TerminatedStarts(b) ==
    {s \in 1..Len(b) :
        /\ Ordinary(b[s])
        /\ s = 1 \/ ~Ordinary(b[s - 1])
        /\ RunEnd(b, s) < Len(b)}

RECURSIVE RunsFrom(_, _)
RunsFrom(b, starts) ==
    IF starts = {} THEN <<>>
    ELSE LET s == CHOOSE x \in starts : \A y \in starts : x <= y
         IN  <<SubSeq(b, s, RunEnd(b, s))>> \o RunsFrom(b, starts \ {s})

\* The lines of b: its maximal non-empty runs of ordinary bytes that are
\* terminated by '\n' or '\0', in order.
TerminatedRuns(b) == RunsFrom(b, TerminatedStarts(b))

\* C7: for one CFData, the callback is called once for each maximal
\* non-empty run of ordinary bytes that '\n' or '\0' terminates, in order,
\* never with an empty string; "abc\ndef\0" gives "abc" then "def", and
\* "\0\0hello\0" gives "hello".
C7_LineSplitting ==
    /\ logio.chunks > 0 =>
         /\ logio.chunkLines = TerminatedRuns(logio.chunk)
         /\ \A i \in 1..Len(logio.chunkLines) : Len(logio.chunkLines[i]) > 0
    /\ logio.chunk = Example1 =>
         logio.chunkLines = <<<<97, 98, 99>>, <<100, 101, 102>>>>
    /\ logio.chunk = Example2 =>
         logio.chunkLines = <<<<104, 101, 108, 108, 111>>>>

\* "abc\ndef\0" has arrived as one CFData and gave two lines.
C7_Witness ==
    /\ logio.chunks = 1
    /\ logio.chunk = Example1
    /\ Len(logio.chunkLines) = 2

\* C8: once the whole stream has arrived, in whatever chunks, the callback
\* has been called with exactly the lines of the whole stream.
C8_LinesAcrossChunks ==
    Len(logio.rest) = 0 => logio.lines = TerminatedRuns(logio.stream)

\* C9: log() on a registered udid whose Device has hostConnected false
\* throws "iOS device must be connected to host" and leaves every Device
\* (its connected counter, its logSocket, logSource and logCallback), the
\* sockets and the run loop's sources as they were.
C9_NotHostAttached ==
    [][(/\ mpc = "log_lookup"
        /\ mpc' # mpc
        /\ ContainsKey(frame.udid)
        /\ ~devs[connectedDevices[frame.udid]].hostConnected)
          => /\ mpc' = "log_return"
             /\ ret' = "iOS device must be connected to host"
             /\ UNCHANGED <<connectedDevices, devs, sockets, runLoopSources>>
      ]_vars

\* log() has thrown for a registered Device that is not host-connected.
C9_Witness ==
    /\ mpc = "log_return"
    /\ ret = "iOS device must be connected to host"
    /\ frame.deviceObj # 0
    /\ connectedDevices[frame.udid] = frame.deviceObj
    /\ ~devs[frame.deviceObj].hostConnected

\* The sources in the main run loop that call LogSocketCallback for Device d.
SourcesOf(d) == {s \in runLoopSources : sockets[s].dev = d}

\* C10: a Device has at most one log source in the run loop, and the socket
\* that calls LogSocketCallback is the one the Device holds: after a second
\* log() the first channel delivers nothing.
C10_OneSubscription ==
    /\ \A d \in 1..Len(devs) :
         ~devs[d].deleted => Cardinality(SourcesOf(d)) <= 1
    /\ mpc = "LogSocketCallback" /\ ~devs[frame.deviceObj].deleted
         => frame.values[1] = devs[frame.deviceObj].logSocket

\* The main thread is in a call of log() or installApp() whose udid the
\* registry does not hold: at the lookup, or on its way back with the error.
NotConnectedCall ==
    \/ /\ mpc \in {"log_lookup", "installApp_lookup"}
       /\ ~ContainsKey(frame.udid)
    \/ /\ mpc \in {"log_return", "installApp_return"}
       /\ ret = "Device '%s' not connected"

\* C11: log() and installApp() with a udid the registry does not hold throw
\* "Device '<udid>' not connected", and no step of such a call changes the
\* registry, a Device (its connected counter, its log socket, source and
\* callback), a Listener, a socket, the run loop's sources, pendingEvents or
\* devicesChanged.
C11_NotConnected ==
    [][/\ (mpc \in {"log_lookup", "installApp_lookup"} /\ mpc' # mpc
             /\ ~ContainsKey(frame.udid))
            => /\ ret' = "Device '%s' not connected"
               /\ mpc' \in {"log_return", "installApp_return"}
       /\ (NotConnectedCall /\ mpc' # mpc)
            => UNCHANGED <<connectedDevices, devs, listeners, sockets,
                           runLoopSources, pendingEvents, devicesChanged>>
      ]_vars

\* installApp() has thrown the not-connected error for a udid that is not
\* registered although a Device of another call's making exists.
C11_Witness ==
    /\ mpc = "installApp_return"
    /\ ret = "Device '%s' not connected"
    /\ ~ContainsKey(frame.udid)
    /\ Len(devs) > 0

\* Thread w holds deviceMutex exclusively and is blocked on pendingMutex.
HoldsRegistryWantsPending(w) ==
    /\ workers[w].pc = "end"
    /\ deviceMutex.exclusive
    /\ pendingMutex

\* devices() holds pendingMutex and is blocked on deviceMutex.
HoldsPendingWantsRegistry ==
    /\ mpc = "devices_lock"
    /\ pendingMutex
    /\ ~CanLockShared

\* C12: devices() never blocks forever; in particular there is no state in
\* which devices() holds pendingMutex and waits for deviceMutex while a
\* getDeviceInfo thread holds deviceMutex and waits for pendingMutex.
C12_DevicesNeverBlocks ==
    ~(/\ HoldsPendingWantsRegistry
      /\ \E w \in 1..Len(workers) : HoldsRegistryWantsPending(w))

\* C13: no two getDeviceInfo threads that have not returned were started for
\* the same udid.
C13_OneWorkerPerUdid ==
    \A w1, w2 \in InFlight : devs[w1].udid = devs[w2].udid => w1 = w2

\* C14: once devices() is past its wait, on its way to the snapshot or
\* taking it, pendingEvents is 0, however the wait returned.
C14_ReleasedAtZero ==
    mpc \in {"devices_lock", "devices_iterate"} => pendingEvents = 0

\* The number of getDeviceInfo threads spawned that have not yet made their
\* decrement.
Undecremented == Cardinality(InFlight)

\* C15: pendingEvents is never negative and equals the number of
\* getDeviceInfo threads that were spawned and have not yet executed their
\* decrement, whether their connect succeeded or threw.
C15_PendingCounts ==
    /\ pendingEvents >= 0
    /\ pendingEvents = Undecremented

\* A thread whose connect threw is about to decrement and is still counted;
\* another thread has already decremented.
C15_Witness ==
    /\ pendingEvents = 1
    /\ \E w \in 1..Len(workers) :
         /\ workers[w].pc = "end"
         /\ workers[w].k < Len(PropKeys)
    /\ \E w \in 1..Len(workers) : workers[w].pc = "done"

\* The connect of thread w threw: it left the try block with no property
\* read.
Threw(w) ==
    /\ workers[w].pc \in {"disconnect", "disconnect_store", "end", "done"}
    /\ workers[w].k < Len(PropKeys)

\* What a thread whose connect threw leaves behind: a Device with its udid
\* only and hostConnected false, and, once it has disconnected, a connected
\* counter of 0.
ThrewLeaves(w) ==
    ~devs[w].deleted =>
        /\ devs[w].props = {"udid"}
        /\ ~devs[w].hostConnected
        /\ workers[w].pc \in {"end", "done"} => devs[w].connected = 0

\* The steps of a thread whose connect threw: none removes a udid from the
\* registry or reports to the host, and the last decrements pendingEvents
\* and, at 0, notifies the devices() that waits.
ThrewSteps(w) ==
    (Threw(w)' /\ workers'[w] # workers[w]) =>
        /\ UNCHANGED <<connectedDevices, ret>>
        /\ workers'[w].pc = "done" =>
             /\ pendingEvents' = pendingEvents - 1
             /\ (pendingEvents' = 0 /\ mpc = "devices_wait") => pendingCond'

AtDeviceIO(w) ==
    workers[w].pc \in
        {"connect", "connect_store", "set", "disconnect", "disconnect_store"}

\* C17: no getDeviceInfo thread holds deviceMutex exclusively while it is at
\* its device I/O, so neither the presence check of on_device_notification
\* nor the shared_lock of devices() waits for a thread's device I/O.
C17_NoLockDuringIO ==
    \A w \in 1..Len(workers) : AtDeviceIO(w) => ~deviceMutex.exclusive

\* C18: no getDeviceInfo thread that has not returned works on a Device that
\* was deleted, and LogSocketCallback is never called with a deleted Device
\* as its info pointer.
C18_NoUseAfterDelete ==
    /\ \A w \in InFlight : ~devs[w].deleted
    /\ mpc = "LogSocketCallback" => ~devs[frame.deviceObj].deleted

\* C19: a detach releases each resource of the Device's log subscription
\* once: no Listener is deleted twice and no run loop source or socket is
\* CFReleased twice by its owner.
C19_ReleasedOnce ==
    /\ \A l \in 1..Len(listeners) : listeners[l] <= 1
    /\ \A s \in 1..Len(sockets) :
         sockets[s].srcRel <= 1 /\ sockets[s].sockRel <= 1

\* Thread w is where it writes the registry or its Device's props and
\* hostConnected.
AtRegistryWrite(w) == workers[w].pc \in {"insert", "set"}

\* The main thread is about to look a udid up in the registry for log() or
\* installApp().
AtLookup == mpc \in {"log_lookup", "installApp_lookup"}

\* C20: every write of a thread to the registry or to a Device's props is
\* made with deviceMutex held exclusively, devices() iterates with a shared
\* lock held, and the lookup of log() and of installApp() is never made
\* while a writer holds deviceMutex exclusively.
C20_ReadersWriter ==
    /\ [](/\ \A w \in 1..Len(workers) :
               AtRegistryWrite(w) => deviceMutex.exclusive
          /\ mpc = "devices_iterate" => deviceMutex.shared_count > 0)
    /\ [][(AtLookup /\ mpc' # mpc) => ~deviceMutex.exclusive]_vars

\* The pump has called emit with "devicesChanged" and is about to return.
Emitted == mpc = "pump_return" /\ frame.emitted

\* C21: with a host that keeps calling pumpRunLoop(), whenever
\* devicesChanged is set a "devicesChanged" event is emitted afterwards,
\* also when a thread sets the flag between the pump's read, its clear and
\* its emit; and only the pump's clear resets the flag.
C21_FlagIsNotified ==
    /\ devicesChanged ~> Emitted
    /\ [][(devicesChanged /\ ~devicesChanged') => mpc = "pump_reset"]_vars

\* A thread has set the flag after the pump cleared it and before the pump
\* emitted.
C21_Witness ==
    /\ mpc = "pump_emit"
    /\ devicesChanged
    /\ \E w \in 1..Len(workers) : workers[w].pc = "insert"

\* C22: the connected counter of every Device is never negative, whatever
\* getDeviceInfo, installApp(), log() and a detach do to it and however they
\* interleave.
C22_ConnectedNotNegative ==
    \A d \in 1..Len(devs) : devs[d].connected >= 0

\* No call of the host is in progress and every getDeviceInfo thread has
\* returned.
NoOperation ==
    /\ mpc = "idle"
    /\ \A w \in 1..Len(workers) : workers[w].pc = "done"

\* C23: installApp() and log() leave the connected counter as they found
\* it, on success and on every error path, so that with no operation in
\* progress the counter of every Device is 0.
C23_ConnectBalance ==
    NoOperation => \A d \in 1..Len(devs) : devs[d].connected = 0

====
